---------------------------- MODULE Spec2Model ----------------------------
(* Model of src/ai_testsuite.py: the pytest session-start synchronisation  *)
(* of the test data archive (pytest_configure, get_test_data_sizes), the    *)
(* archive helpers (download_and_extract_data, extract_tar,                 *)
(* extract_data_from_tar, handle_existing_data) and the per-test skip       *)
(* fixtures.                                                                *)
(*                                                                          *)
(* The file system is the record fs: whether the test data directory        *)
(* exists, which archive version the file test_data.tar.gz holds (0: no     *)
(* such file) and, per file name, the archive version whose copy of that    *)
(* file lies in the directory (0: no such file).  The remote is the archive *)
(* version served at the URL (0: the content-length query fails).  The      *)
(* remote changes between sessions only.  Archives are valid tarballs.      *)
(* Lines 190-192 (numba compatibility) touch no state modelled here.        *)
EXTENDS Integers, Sequences, FiniteSets, TLC

\* ----------------------------------------------------------------- bounds
NumVersions == 3
MaxTests == 2

\* ------------------------------------------------------------- the domain
Versions == 1..NumVersions
FileNames == 0..NumVersions
Devices == {"CPU", "GPU", "TPU"}

\* Byte size of archive version v: versions 1,2 share a size, 3,4 the next.
Size(v) == (v + 1) \div 2

\* Members of archive version v: a file every archive holds, and its own.
Members(v) == {0, v}

UNKNOWN == -1

NoFiles == [f \in FileNames |-> 0]
NoDir == [exists |-> FALSE, archive |-> 0, files |-> NoFiles]

VARIABLES fs, remote, pc, config, local_size, remote_size, trace, prev,
          tarArgs, tests, lastTest

vars == <<fs, remote, pc, config, local_size, remote_size, trace, prev,
          tarArgs, tests, lastTest>>

\* ------------------------------------------------------ file system steps
getsize(d) == IF d.archive = 0 THEN UNKNOWN ELSE Size(d.archive)

rmtree(d) == NoDir

mkdir(d) == [d EXCEPT !.exists = TRUE]

\* urlretrieve(url, test_data_archive): opens the URL, then the file.
urlretrieve_raises(d, r) == r = 0 \/ ~d.exists

urlretrieve(d, r) == [d EXCEPT !.archive = r]

extract_tar_raises(d) == d.archive = 0

extract_tar_noop(d) == d

extract_tar(d) ==
    [d EXCEPT !.files = [f \in FileNames |->
        IF f \in Members(d.archive) THEN d.archive ELSE d.files[f]]]

\* Outcome of a helper: the file system left behind, whether it raised,
\* and the calls it made.
download_and_extract_data(d, r) ==
    IF urlretrieve_raises(d, r)
    THEN [fs |-> d, raised |-> TRUE, events |-> <<"urlretrieve_failed">>]
    ELSE [fs |-> extract_tar(urlretrieve(d, r)), raised |-> FALSE,
          events |-> <<"urlretrieve", "extract_tar">>]

handle_existing_data_loses_archive(d, local_data) ==
    IF ~local_data
    THEN [fs |-> rmtree(d), raised |-> FALSE]
    ELSE IF d.archive = 0
         THEN [fs |-> d, raised |-> TRUE]
         ELSE [fs |-> mkdir(rmtree(d)), raised |-> FALSE]

handle_existing_data(d, local_data) ==
    IF ~local_data
    THEN [fs |-> rmtree(d), raised |-> FALSE]
    ELSE IF d.archive = 0
         THEN [fs |-> d, raised |-> TRUE]
         ELSE LET temp_dir == d.archive
              IN  [fs |-> [mkdir(rmtree(d)) EXCEPT !.archive = temp_dir],
                   raised |-> FALSE]

\* --------------------------------------------------------------- fixtures
device(c) == IF c.cpu THEN "CPU" ELSE "GPU"

run_only_on_device_fixture_eq(m, c) ==
    m.run_only_on # "none" /\ m.run_only_on = device(c)

run_only_on_device_fixture(m, c) ==
    m.run_only_on # "none" /\ m.run_only_on # device(c)

downloads_weights(m, c) == m.with_downloads /\ ~c.with_downloads

run_nightly_test_for_qa(m, c) == m.nightly /\ ~c.nightly

Markers == [run_only_on : Devices \cup {"none"},
            with_downloads : BOOLEAN, nightly : BOOLEAN]

Options == [cpu : BOOLEAN, use_local_test_data : BOOLEAN,
            with_downloads : BOOLEAN, nightly : BOOLEAN]

NoOptions == [cpu |-> FALSE, use_local_test_data |-> FALSE,
              with_downloads |-> FALSE, nightly |-> FALSE]

NoTest == [run_only_on |-> "none", with_downloads |-> FALSE,
           nightly |-> FALSE, skipped |-> FALSE]

NoTarArgs == [url |-> FALSE, local_data |-> FALSE]

\* ------------------------------------------------------------------- Init
Extracted(w) == [f \in FileNames |-> IF f \in Members(w) THEN w ELSE 0]

Init ==
    /\ fs \in {NoDir} \cup
              [exists : {TRUE}, archive : 0..NumVersions,
               files : {NoFiles} \cup {Extracted(w) : w \in Versions}]
    /\ remote \in 0..NumVersions
    /\ pc = "idle"
    /\ config = NoOptions
    /\ local_size = UNKNOWN
    /\ remote_size = UNKNOWN
    /\ trace = <<>>
    /\ prev = fs
    /\ tarArgs = NoTarArgs
    /\ tests = 0
    /\ lastTest = NoTest

\* ---------------------------------------------------------------- actions
\* The remote release asset is replaced, or becomes (un)reachable.
RemoteChange ==
    /\ pc = "idle"
    /\ \E r \in 0..NumVersions : r # remote /\ remote' = r
    /\ UNCHANGED <<fs, pc, config, local_size, remote_size, trace, prev,
                   tarArgs, tests, lastTest>>

\* A session starts with the parsed command line (pytest_addoption).
SessionStart ==
    /\ pc = "idle"
    /\ \E c \in Options : config' = c
    /\ pc' = "sizes"
    /\ prev' = fs
    /\ trace' = <<>>
    /\ local_size' = UNKNOWN
    /\ remote_size' = UNKNOWN
    /\ tests' = 0
    /\ lastTest' = NoTest
    /\ UNCHANGED <<fs, remote, tarArgs>>

\* Lines 207-212: the handler of a failed remote size query.
on_query_failure(ls) == IF ls = UNKNOWN THEN "exited" ELSE "raised"

queries_remote_always(c) == TRUE

queries_remote(c) == ~c.use_local_test_data

get_test_data_sizes ==
    /\ pc = "sizes"
    /\ local_size' = getsize(fs)
    /\ IF ~queries_remote(config)
       THEN /\ remote_size' = UNKNOWN
            /\ pc' = "sync"
            /\ UNCHANGED trace
       ELSE IF remote # 0
       THEN /\ remote_size' = Size(remote)
            /\ pc' = "sync"
            /\ trace' = Append(trace, "urlopen")
       ELSE /\ remote_size' = UNKNOWN
            /\ pc' = on_query_failure(getsize(fs))
            /\ trace' = trace \o <<"urlopen", "logging.error">>
    /\ UNCHANGED <<fs, remote, config, prev, tarArgs, tests, lastTest>>

needs_download_always(ls, rs) == TRUE

needs_download(ls, rs) == rs # ls

local_archive_missing_ignored(ls) == FALSE

local_archive_missing(ls) == ls = UNKNOWN

pytest_configure ==
    /\ pc = "sync"
    /\ IF config.use_local_test_data
       THEN IF local_archive_missing(local_size)
            THEN /\ pc' = "exited"
                 /\ UNCHANGED <<fs, trace>>
            ELSE IF extract_tar_raises(fs)
            THEN /\ pc' = "raised"
                 /\ UNCHANGED <<fs, trace>>
            ELSE /\ fs' = extract_tar(fs)
                 /\ trace' = Append(trace, "extract_tar")
                 /\ pc' = "done"
       ELSE IF needs_download(local_size, remote_size)
            THEN LET out == download_and_extract_data(fs, remote)
                 IN  /\ fs' = out.fs
                     /\ trace' = trace \o out.events
                     /\ pc' = IF out.raised THEN "raised" ELSE "done"
            ELSE /\ pc' = "done"
                 /\ UNCHANGED <<fs, trace>>
    /\ UNCHANGED <<remote, config, local_size, remote_size, prev, tarArgs,
                   tests, lastTest>>

\* One test of the session: the autouse fixtures decide whether it is skipped.
RunTest ==
    /\ pc = "done"
    /\ tests < MaxTests
    /\ \E m \in Markers :
         lastTest' = [run_only_on |-> m.run_only_on,
                      with_downloads |-> m.with_downloads,
                      nightly |-> m.nightly,
                      skipped |-> \/ run_only_on_device_fixture(m, config)
                                  \/ downloads_weights(m, config)
                                  \/ run_nightly_test_for_qa(m, config)]
    /\ tests' = tests + 1
    /\ UNCHANGED <<fs, remote, pc, config, local_size, remote_size, trace,
                   prev, tarArgs>>

\* The session is over; the directory stays as the cache of the next one.
SessionEnd ==
    /\ pc \in {"done", "exited", "raised"}
    /\ pc' = "idle"
    /\ config' = NoOptions
    /\ local_size' = UNKNOWN
    /\ remote_size' = UNKNOWN
    /\ trace' = <<>>
    /\ prev' = fs
    /\ tests' = 0
    /\ lastTest' = NoTest
    /\ UNCHANGED <<fs, remote, tarArgs>>

\* extract_data_from_tar(test_dir, test_data_archive, url, local_data) is
\* called: lines 105-108, the preparation of the directory.
extract_data_from_tar_prepare ==
    /\ pc = "idle"
    /\ \E a \in [url : BOOLEAN, local_data : BOOLEAN] :
         /\ tarArgs' = a
         /\ LET out == IF fs.exists
                       THEN handle_existing_data(fs, a.local_data)
                       ELSE [fs |-> mkdir(fs), raised |-> FALSE]
            IN  /\ fs' = out.fs
                /\ pc' = IF out.raised THEN "tar_raised" ELSE "tar_fill"
    /\ prev' = fs
    /\ trace' = <<>>
    /\ UNCHANGED <<remote, config, local_size, remote_size, tests, lastTest>>

\* Lines 110-113: download and extract, or extract the archive in place.
extract_data_from_tar_fill ==
    /\ pc = "tar_fill"
    /\ IF tarArgs.url /\ ~tarArgs.local_data
       THEN LET out == download_and_extract_data(fs, remote)
            IN  /\ fs' = out.fs
                /\ trace' = trace \o out.events
                /\ pc' = IF out.raised THEN "tar_raised" ELSE "tar_done"
       ELSE IF extract_tar_raises(fs)
            THEN /\ pc' = "tar_raised"
                 /\ UNCHANGED <<fs, trace>>
            ELSE /\ fs' = extract_tar(fs)
                 /\ trace' = Append(trace, "extract_tar")
                 /\ pc' = "tar_done"
    /\ UNCHANGED <<remote, config, local_size, remote_size, prev, tarArgs,
                   tests, lastTest>>

extract_data_from_tar_return ==
    /\ pc \in {"tar_done", "tar_raised"}
    /\ pc' = "idle"
    /\ tarArgs' = NoTarArgs
    /\ trace' = <<>>
    /\ prev' = fs
    /\ UNCHANGED <<fs, remote, config, local_size, remote_size, tests,
                   lastTest>>

Next ==
    \/ RemoteChange
    \/ SessionStart
    \/ get_test_data_sizes
    \/ pytest_configure
    \/ RunTest
    \/ SessionEnd
    \/ extract_data_from_tar_prepare
    \/ extract_data_from_tar_fill
    \/ extract_data_from_tar_return

Spec == Init /\ [][Next]_vars

\* ------------------------------------------------------------ vocabulary
Has(seq, e) == \E i \in 1..Len(seq) : seq[i] = e

InSession == pc \in {"sizes", "sync", "done", "exited", "raised"}

Configured == pc \in {"done", "exited", "raised"}

HoldsExtracted(d) ==
    /\ d.exists
    /\ d.archive # 0
    /\ \A f \in Members(d.archive) : d.files[f] = d.archive

NoDownload == ~Has(trace, "urlretrieve") /\ ~Has(trace, "urlretrieve_failed")

NoNetwork == NoDownload /\ ~Has(trace, "urlopen")

OnlyMembers(d) ==
    \A f \in FileNames :
        d.files[f] = IF f \in Members(d.archive) THEN d.archive ELSE 0

InTarCall == pc \in {"tar_fill", "tar_done", "tar_raised"}

\* ----------------------------------------------------------------- claims

\* C1: without --use_local_test_data, whenever the queried remote content
\* length differs from the local archive size (no local archive and an
\* absent directory included), pytest_configure downloads the archive, then
\* extracts it, and the local archive size is then the queried remote size.
C1_DownloadThenExtract ==
    (/\ Configured
     /\ ~config.use_local_test_data
     /\ remote_size # UNKNOWN
     /\ remote_size # local_size)
    => /\ pc = "done"
       /\ trace = <<"urlopen", "urlretrieve", "extract_tar">>
       /\ getsize(fs) = remote_size

\* C2: without --use_local_test_data, when the remote content length was
\* obtained and equals the local archive size, pytest_configure completes
\* with no download and no extraction and leaves archive and directory as
\* they were; a session that starts with the archive the unchanged remote
\* serves never downloads.
C2_NoDownloadWhenSizesMatch ==
    /\ (/\ Configured
        /\ ~config.use_local_test_data
        /\ remote_size # UNKNOWN
        /\ remote_size = local_size)
       => /\ pc = "done"
          /\ trace = <<"urlopen">>
          /\ fs = prev
    /\ (/\ InSession
        /\ ~config.use_local_test_data
        /\ remote # 0
        /\ prev.archive = remote)
       => NoDownload /\ ~Has(trace, "extract_tar")

C2_Witness ==
    /\ pc = "done"
    /\ ~config.use_local_test_data
    /\ remote_size # UNKNOWN
    /\ remote_size = local_size
    /\ prev.archive = remote
    /\ trace = <<"urlopen">>

\* C3: without --use_local_test_data, when the remote size query fails and
\* a local archive exists, get_test_data_sizes returns after the warning
\* and pytest_configure completes without raising and without a download.
C3_FallbackToLocal ==
    (/\ Configured
     /\ ~config.use_local_test_data
     /\ remote = 0
     /\ prev.archive # 0)
    => /\ pc = "done"
       /\ Has(trace, "logging.error")
       /\ NoDownload

\* C4: when no usable archive can be obtained (--use_local_test_data with
\* no local archive, or a failed remote size query with no local archive)
\* the session exits before any download, extraction or test.
C4_AbortWithoutArchive ==
    (/\ InSession
     /\ prev.archive = 0
     /\ config.use_local_test_data \/ remote = 0)
    => /\ NoDownload
       /\ ~Has(trace, "extract_tar")
       /\ fs = prev
       /\ tests = 0
       /\ Configured => pc = "exited"

C4_Witness ==
    /\ pc = "exited"
    /\ config.use_local_test_data
    /\ prev.archive = 0
    /\ trace = <<>>

\* C5: with --use_local_test_data and a local archive present,
\* pytest_configure makes no network access and extracts the local archive
\* into the directory, the archive file itself unmodified.
C5_LocalOnlyNoNetwork ==
    (/\ InSession
     /\ config.use_local_test_data
     /\ prev.archive # 0)
    => /\ NoNetwork
       /\ fs.archive = prev.archive
       /\ Configured =>
            /\ pc = "done"
            /\ trace = <<"extract_tar">>
            /\ HoldsExtracted(fs)
            /\ \A f \in FileNames \ Members(fs.archive) :
                   fs.files[f] = prev.files[f]

C5_Witness ==
    /\ pc = "done"
    /\ config.use_local_test_data
    /\ prev.archive # 0
    /\ trace = <<"extract_tar">>
    /\ HoldsExtracted(fs)
    /\ ~HoldsExtracted(prev)

\* C6 (as stated): whenever pytest_configure has completed without
\* aborting, the directory holds the fully extracted contents of the local
\* archive, whose size is the queried remote size or the cached local size.
C6_AlwaysExtracted ==
    pc = "done"
    => /\ HoldsExtracted(fs)
       /\ getsize(fs) \in {remote_size, local_size}

\* C6 (amended): whenever pytest_configure has completed without aborting,
\* the local archive's size is the queried remote size or the cached local
\* size; the directory holds the fully extracted contents of the local
\* archive if the session used --use_local_test_data or the sizes differed,
\* and otherwise is left exactly as the session found it.
C6_ExtractedUnlessSizesMatch ==
    pc = "done"
    => /\ fs.archive # 0
       /\ getsize(fs) \in {remote_size, local_size}
       /\ IF config.use_local_test_data \/ remote_size # local_size
          THEN HoldsExtracted(fs)
          ELSE fs = prev

C6_Witness ==
    /\ pc = "done"
    /\ ~config.use_local_test_data
    /\ remote_size # local_size
    /\ prev.archive # 0
    /\ ~HoldsExtracted(prev)
    /\ HoldsExtracted(fs)
    /\ getsize(fs) = remote_size

\* C7: after a session that downloaded, the directory holds only the new
\* archive and the files extracted from it; no earlier file that is not
\* part of the new archive remains.
C7_PriorContentsReplaced ==
    (pc = "done" /\ Has(trace, "urlretrieve")) => OnlyMembers(fs)

\* C8: extract_data_from_tar with local_data = true on an existing
\* directory that holds the archive: the archive is at its path with its
\* content unchanged after the call, every other earlier entry is gone
\* before the extraction, and the call does not raise.
C8_ArchivePreserved ==
    (/\ InTarCall
     /\ tarArgs.local_data
     /\ prev.exists
     /\ prev.archive # 0)
    => /\ pc # "tar_raised"
       /\ fs.exists
       /\ fs.archive = prev.archive
       /\ pc = "tar_fill" => fs.files = NoFiles
       /\ pc = "tar_done" => OnlyMembers(fs) /\ trace = <<"extract_tar">>

C8_Witness ==
    /\ pc = "tar_done"
    /\ tarArgs.local_data
    /\ prev.exists
    /\ prev.archive # 0
    /\ fs.archive = prev.archive
    /\ \E f \in FileNames : prev.files[f] # 0 /\ fs.files[f] = 0

\* C9: extract_data_from_tar with local_data = false on an existing
\* directory: the directory exists and is empty when the archive is written
\* or extracted into it, and with the remote reachable the call completes
\* with the directory populated.
C9_DirectoryRecreated ==
    (/\ InTarCall
     /\ ~tarArgs.local_data
     /\ prev.exists)
    => /\ pc = "tar_fill" => fs.exists /\ fs.files = NoFiles
       /\ (pc # "tar_fill" /\ tarArgs.url /\ remote # 0)
              => pc = "tar_done" /\ HoldsExtracted(fs)

\* C10: a test is skipped if and only if it is marked run_only_on(d) with d
\* other than the device ("CPU" under --cpu, else "GPU"), or with_downloads
\* without --with_downloads, or nightly without --nightly.
C10_SkipDecision ==
    tests > 0
    => /\ lastTest.skipped <=>
            \/ /\ lastTest.run_only_on \in Devices
               /\ lastTest.run_only_on # (IF config.cpu THEN "CPU" ELSE "GPU")
            \/ lastTest.with_downloads /\ ~config.with_downloads
            \/ lastTest.nightly /\ ~config.nightly
       /\ (lastTest.run_only_on = "GPU" /\ config.cpu) => lastTest.skipped
       /\ (lastTest.run_only_on = "CPU" /\ ~config.cpu) => lastTest.skipped

C10_Witness ==
    /\ tests > 0
    /\ lastTest.run_only_on = "GPU"
    /\ config.cpu
    /\ ~lastTest.with_downloads
    /\ ~lastTest.nightly
    /\ lastTest.skipped


=============================================================================
